---- MODULE Spec2Model ----
(***************************************************************************)
(* Restaurant-ordering backend: the relational store (User, Restaurant,    *)
(* Menu, PurchaseHistory), the restaurant/menu CRUD handlers, register,    *)
(* and the purchase flow of PurchaseService.purchaseDish.                  *)
(*                                                                         *)
(* Every `await` on the store is one step of a request: requests of        *)
(* different clients interleave between steps, never inside one (a single  *)
(* statement of the store is atomic).  Money is counted in whole units     *)
(* (the store keeps Decimal(10,2); amounts of the model are far below the  *)
(* width, and sums of two-decimal amounts never cross a unit).             *)
(***************************************************************************)
EXTENDS Integers, Sequences, FiniteSets, TLC

\* ------------------------------------------------------------------ bounds
MaxRequests == 2      \* requests accepted in one behaviour
MaxItems    == 2      \* line items of one purchase request
MaxQuantity == 2      \* quantity of one line item
MaxPrice    == 2      \* largest price of a MenuDto
MaxCash     == 4      \* opening balance of the seeded buyer
MaxTopUp    == 2      \* largest amount of one top-up

Slots == {1, 2}                   \* requests in flight at the same time
Names == {"alice", "bob", "carol"}
RestaurantNames == {"r1", "r2"}
DishNames == {"d1", "d2"}
Passwords == {"p1", "p2"}
NoEmail == "<null>"
Emails == {"a@x", NoEmail}

\* ------------------------------------------------------------- the store
VARIABLES
  user,             \* table User:            id -> row
  restaurant,       \* table Restaurant:      id -> row
  menu,             \* table Menu:            id -> row
  purchaseHistory,  \* table PurchaseHistory: id -> row
  seq,              \* the autoincrement sequence of each table
  now,              \* the clock read by new Date()
  nreq,             \* requests accepted so far
  proc,             \* the requests in flight: slot -> locals of the handler
  resp              \* the response sent by the last step (NoResp: none)

tables == <<user, restaurant, menu, purchaseHistory>>
vars == <<user, restaurant, menu, purchaseHistory, seq, now, nreq, proc, resp>>

Idle == [op |-> "idle"]
NoResp == [op |-> "none", status |-> 0]

\* argon.hash / argon.verify: the stored value is never the raw password
hash(p) == <<"argon2", p>>

\* a verify that accepts every password
verifyAny(h, p) == TRUE

verify(h, p) == h = hash(p)

\* an optional row: <<>> is null, <<row>> is a row
Null == <<>>
Some(row) == <<row>>
IsNull(o) == o = <<>>
Val(o) == o[1]

\* model.<table>.findFirst({ where: { id } })
findFirst(table, id) == IF id \in DOMAIN table THEN Some(table[id]) ELSE Null

\* a table without the rows `ids` / with the row `id`
Without(table, ids) == [k \in DOMAIN table \ ids |-> table[k]]
With(table, id, row) ==
  [k \in DOMAIN table \cup {id} |-> IF k = id THEN row ELSE table[k]]

\* User.name without @unique
UserUniqueNone == {}

\* the @unique columns of the schema: User.name is the only one
UserUnique == {"name"}
RestaurantUnique == {}

\* onDelete: Cascade
menusOf(rids) == {m \in DOMAIN menu : menu[m].restaurantId \in rids}
purchasesOfMenus(mids) ==
  {h \in DOMAIN purchaseHistory : purchaseHistory[h].menuId \in mids}
purchasesOfUsers(uids) ==
  {h \in DOMAIN purchaseHistory : purchaseHistory[h].userId \in uids}

\* Restaurant.owner with onDelete: SetNull
restaurantsOfNone(uids) == {}

restaurantsOf(uids) == {r \in DOMAIN restaurant : restaurant[r].ownerId \in uids}

\* ------------------------------------------------------------------ Init
\* The store after register (alice, bob) and their top-ups, createRestaurant
\* (r1 by bob, r2 by alice) and createMenuInRestaurant (d1 in r2, d2 in r1).
SeedUser ==
  (1 :> [id |-> 1, name |-> "alice", password |-> hash("p1"), email |-> NoEmail,
         cashBalance |-> MaxCash]) @@
  (2 :> [id |-> 2, name |-> "bob", password |-> hash("p2"), email |-> NoEmail,
         cashBalance |-> 1])

SeedRestaurant ==
  (1 :> [id |-> 1, restaurantName |-> "r1", cashBalance |-> 0, ownerId |-> 2]) @@
  (2 :> [id |-> 2, restaurantName |-> "r2", cashBalance |-> 0, ownerId |-> 1])

SeedMenu ==
  (1 :> [id |-> 1, dishName |-> "d1", price |-> 1, restaurantId |-> 2]) @@
  (2 :> [id |-> 2, dishName |-> "d2", price |-> 2, restaurantId |-> 1])

Init ==
  /\ user = SeedUser
  /\ restaurant = SeedRestaurant
  /\ menu = SeedMenu
  /\ purchaseHistory = <<>>
  /\ seq = [user |-> 2, restaurant |-> 2, menu |-> 2, purchaseHistory |-> 0]
  /\ now = 0
  /\ nreq = 0
  /\ proc = [s \in Slots |-> Idle]
  /\ resp = NoResp

\* ------------------------------------------------------------ requests
\* ids start at 1: 0 is the id of no row, the others were all handed out
UserIds == 0..seq.user
RestaurantIds == 0..seq.restaurant
MenuIds == 0..seq.menu

\* PurchaseDto: items: { menuId, quantity }[]
Items == [menuId : MenuIds, quantity : 1..MaxQuantity]
Dtos == UNION {[1..n -> Items] : n \in 1..MaxItems}
\* MenuDto: { dishName, price }
MenuDtos == [dishName : DishNames, price : 1..MaxPrice]

\* Sigma(quantity) of a request
RECURSIVE units(_)
units(items) ==
  IF items = <<>> THEN 0 ELSE Head(items).quantity + units(Tail(items))

\* every step takes time
Tick == now' = now + 1

\* the lowest free slot takes the next request
FreeSlot(s) == proc[s] = Idle /\ \A t \in Slots : t < s => proc[t] # Idle
AllIdle == \A s \in Slots : proc[s] = Idle

\* a request arrives
Accept == nreq' = nreq + 1

\* a step that sends no response
Continue(s, locals) ==
  /\ proc' = [proc EXCEPT ![s] = locals]
  /\ resp' = NoResp

\* the handler returns or throws: the response goes out, the slot is free
Respond(s, status, locals) ==
  /\ proc' = [proc EXCEPT ![s] = Idle]
  /\ resp' = [op |-> locals.op, status |-> status, req |-> locals]

\* a handler that runs in one step
Reply(op, status, args) ==
  /\ resp' = [op |-> op, status |-> status, req |-> args]
  /\ UNCHANGED proc

\* ------------------------------------------- PurchaseService.purchaseDish
\* the quantity forgotten
lineTotalOfOne(price, quantity) == price

\* menu.price.toNumber() * dto.items[i].quantity
lineTotal(price, quantity) == price * quantity

\* no balance is too small
insufficientNever(cashBalance, totalPrice) == FALSE

\* <= for <
insufficientOrEqual(cashBalance, totalPrice) == cashBalance <= totalPrice

\* user.cashBalance.toNumber() < totalPrice
insufficient(cashBalance, totalPrice) == cashBalance < totalPrice

\* menu === undefined, which findFirst never returns
invalidMenuUndefined(m) == FALSE

\* menu === null
invalidMenu(m) == IsNull(m)

\* The locals of a request: `credited` (the restaurant of every update done)
\* and `pre` (the store as the request arrived) are kept for the properties,
\* no step reads them.
\* impl 1: the service of lines 285-419; impl 2: the service of lines 578-653
purchaseDish(s, u, dto, impl) ==
  /\ Accept
  /\ Tick
  /\ Continue(s, [op |-> "purchaseDish", impl |-> impl, dto |-> dto,
                  user |-> user[u], pc |-> "total", i |-> 1, j |-> 0,
                  totalPrice |-> 0, menu |-> Null, restaurant |-> Null,
                  purchases |-> <<>>, transactionDateTime |-> 0,
                  credited |-> <<>>,
                  pre |-> [user |-> user, restaurant |-> restaurant,
                           menu |-> menu, purchaseHistory |-> purchaseHistory]])
  /\ UNCHANGED <<tables, seq>>

\* first loop: one findFirst per line item (reading menu.price of a null menu
\* throws); after the last one the transaction time is taken and the balance
\* of the request's user compared
purchaseTotal(s) ==
  LET p == proc[s]
      item == p.dto[p.i]
      m == findFirst(menu, item.menuId)
      total == p.totalPrice + lineTotal(Val(m).price, item.quantity)
  IN
  /\ p.op = "purchaseDish" /\ p.pc = "total"
  /\ Tick
  /\ UNCHANGED <<tables, seq, nreq>>
  /\ IF invalidMenu(m) THEN Respond(s, 400, p)
     ELSE IF IsNull(m) THEN Respond(s, 500, p)
     ELSE IF p.i < Len(p.dto)
       THEN Continue(s, [p EXCEPT !.totalPrice = total, !.i = p.i + 1])
     ELSE IF insufficient(p.user.cashBalance, total)
       THEN Respond(s, 402, [p EXCEPT !.totalPrice = total])
     ELSE Continue(s, [p EXCEPT !.totalPrice = total, !.i = 1, !.pc = "menu",
                                !.transactionDateTime = now])

\* second loop, head of iteration i: the menu is read again; a null menu
\* throws at menu.id
purchaseMenu(s) ==
  LET p == proc[s]
      m == findFirst(menu, p.dto[p.i].menuId)
  IN
  /\ p.op = "purchaseDish" /\ p.pc = "menu"
  /\ Tick
  /\ UNCHANGED <<tables, seq, nreq>>
  /\ IF IsNull(m) THEN Respond(s, 500, p)
     ELSE Continue(s, [p EXCEPT !.menu = m, !.j = 0, !.pc = "create"])

\* purchaseHistory.create, connecting the menu and the user: a missing menu
\* or user row fails the statement
purchaseCreate(s) ==
  LET p == proc[s]
      id == seq.purchaseHistory + 1
      row == [id |-> id, menuId |-> Val(p.menu).id, userId |-> p.user.id,
              transactionDate |->
                IF p.impl = 1 THEN p.transactionDateTime ELSE now]
  IN
  /\ p.op = "purchaseDish" /\ p.pc = "create"
  /\ Tick
  /\ UNCHANGED <<user, restaurant, menu, nreq>>
  /\ IF Val(p.menu).id \in DOMAIN menu /\ p.user.id \in DOMAIN user
     THEN /\ purchaseHistory' = With(purchaseHistory, id, row)
          /\ seq' = [seq EXCEPT !.purchaseHistory = id]
          /\ Continue(s, [p EXCEPT !.purchases = Append(p.purchases, row),
                                   !.pc = "restaurant"])
     ELSE /\ UNCHANGED <<purchaseHistory, seq>>
          /\ Respond(s, 500, p)

\* restaurant.findFirst: impl 1 by menu.restaurantId, impl 2 by menu.id; a
\* null restaurant throws at restaurant.cashBalance
purchaseRestaurant(s) ==
  LET p == proc[s]
      r == findFirst(restaurant,
                     IF p.impl = 1 THEN Val(p.menu).restaurantId
                     ELSE Val(p.menu).id)
  IN
  /\ p.op = "purchaseDish" /\ p.pc = "restaurant"
  /\ Tick
  /\ UNCHANGED <<tables, seq, nreq>>
  /\ IF IsNull(r) THEN Respond(s, 500, p)
     ELSE Continue(s, [p EXCEPT !.restaurant = r, !.pc = "credit"])

\* the price not added
creditNone(cashBalance, price) == cashBalance

\* restaurant.cashBalance.toNumber() + menu.price.toNumber()
credit(cashBalance, price) == cashBalance + price

\* restaurant.update({ where: { id: menu.restaurantId }, data: { cashBalance:
\* restaurant.cashBalance + menu.price } }); then the loops advance: impl 1
\* repeats create..credit `quantity` times, impl 2 runs them once per item
purchaseCredit(s) ==
  LET p == proc[s]
      rid == Val(p.menu).restaurantId
      balance == credit(Val(p.restaurant).cashBalance, Val(p.menu).price)
      q == [p EXCEPT !.credited = Append(p.credited, rid)]
      more == p.impl = 1 /\ p.j + 1 < p.dto[p.i].quantity
  IN
  /\ p.op = "purchaseDish" /\ p.pc = "credit"
  /\ Tick
  /\ UNCHANGED <<user, menu, purchaseHistory, seq, nreq>>
  /\ IF rid \in DOMAIN restaurant
     THEN /\ restaurant' = [restaurant EXCEPT ![rid].cashBalance = balance]
          /\ IF more
               THEN Continue(s, [q EXCEPT !.j = p.j + 1, !.pc = "create"])
             ELSE IF p.i < Len(p.dto)
               THEN Continue(s, [q EXCEPT !.i = p.i + 1, !.pc = "menu"])
             ELSE Continue(s, [q EXCEPT !.pc = "debit"])
     ELSE /\ UNCHANGED restaurant
          /\ Respond(s, 500, p)

\* user.update({ where: { name: user.name }, data: { cashBalance:
\* user.cashBalance - totalPrice } }) on the request's user object
purchaseDebit(s) ==
  LET p == proc[s]
      hit == {k \in DOMAIN user : user[k].name = p.user.name}
      newBalance == p.user.cashBalance - p.totalPrice
  IN
  /\ p.op = "purchaseDish" /\ p.pc = "debit"
  /\ Tick
  /\ UNCHANGED <<restaurant, menu, purchaseHistory, seq, nreq>>
  /\ IF hit # {}
     THEN /\ user' = [k \in DOMAIN user |->
                        IF k \in hit THEN [user[k] EXCEPT !.cashBalance = newBalance]
                        ELSE user[k]]
          /\ Respond(s, 201, p)
     ELSE /\ UNCHANGED user
          /\ Respond(s, 500, p)

\* ------------------------------------- PurchaseService.getPurchaseByOwner
\* purchaseHistory.findMany({ where: { userId: user.id } }), in the order the
\* store returns the rows
getPurchaseByOwner(s, u, found) ==
  LET locals == [op |-> "getPurchaseByOwner", user |-> user[u], pc |-> "menu",
                 i |-> 1, purchases |-> [k \in 1..Len(found) |-> purchaseHistory[found[k]]],
                 body |-> <<>>]
  IN
  /\ Accept /\ Tick
  /\ UNCHANGED <<tables, seq>>
  /\ IF found = <<>>
     THEN /\ resp' = [op |-> "getPurchaseByOwner", status |-> 200, req |-> locals]
          /\ UNCHANGED proc
     ELSE Continue(s, locals)

\* menu.findFirst({ where: { id: purchases[i].menuId } }); menu.dishName of a
\* null menu throws
getPurchaseMenu(s) ==
  LET p == proc[s]
      m == findFirst(menu, p.purchases[p.i].menuId)
      q == [p EXCEPT !.body = Append(p.body, [menuName |-> Val(m).dishName,
                                               menuPrice |-> Val(m).price])]
  IN
  /\ p.op = "getPurchaseByOwner" /\ p.pc = "menu"
  /\ Tick
  /\ UNCHANGED <<tables, seq, nreq>>
  /\ IF IsNull(m) THEN Respond(s, 500, p)
     ELSE IF p.i < Len(p.purchases) THEN Continue(s, [q EXCEPT !.i = p.i + 1])
     ELSE Respond(s, 200, q)

\* the store rejects the statement a request is waiting on (the connection
\* is lost, the pool times out): the rejection is not caught, the request
\* ends 500 and what it wrote before stays
storeFails(s) ==
  LET p == proc[s] IN
  /\ p.op = "purchaseDish"
  /\ Tick
  /\ UNCHANGED <<tables, seq, nreq>>
  /\ Respond(s, 500, p)

\* ------------------------------------------------------ RestaurantService
\* the owner test left out
isOwnerAnyone(u, instance) == TRUE

\* user.id !== instance.ownerId
isOwner(u, instance) == u = Val(instance).ownerId

\* RestaurantDto: { restaurantName, openingHours }; no handler reads
\* openingHours (the store-open test of purchaseDish is commented out)
RestaurantDtos == [restaurantName : RestaurantNames]

nameTaken(name) ==
  \E r \in DOMAIN restaurant : restaurant[r].restaurantName = name

\* restaurant.create; P2002 (a unique column taken) gives 409
createRestaurant(u, dto) ==
  LET args == [user |-> user[u], dto |-> dto]
      id == seq.restaurant + 1
      row == [id |-> id, restaurantName |-> dto.restaurantName,
              cashBalance |-> 0, ownerId |-> u]
  IN
  /\ Accept /\ Tick
  /\ UNCHANGED <<user, menu, purchaseHistory>>
  /\ IF "restaurantName" \in RestaurantUnique /\ nameTaken(dto.restaurantName)
     THEN /\ UNCHANGED <<restaurant, seq>>
          /\ Reply("createRestaurant", 409, args)
     ELSE /\ restaurant' = With(restaurant, id, row)
          /\ seq' = [seq EXCEPT !.restaurant = id]
          /\ Reply("createRestaurant", 201, args)

\* findFirst, 404 / 403, then restaurant.update({ where: { id }, data: dto })
updateRestaurantById(restaurantId, dto, u) ==
  LET args == [user |-> user[u], restaurantId |-> restaurantId, dto |-> dto]
      instance == findFirst(restaurant, restaurantId)
      clash == /\ "restaurantName" \in RestaurantUnique
               /\ \E r \in DOMAIN restaurant \ {restaurantId} :
                    restaurant[r].restaurantName = dto.restaurantName
  IN
  /\ Accept /\ Tick
  /\ UNCHANGED <<user, menu, purchaseHistory, seq>>
  /\ IF IsNull(instance)
       THEN UNCHANGED restaurant /\ Reply("updateRestaurantById", 404, args)
     ELSE IF ~isOwner(u, instance)
       THEN UNCHANGED restaurant /\ Reply("updateRestaurantById", 403, args)
     ELSE IF clash
       THEN UNCHANGED restaurant /\ Reply("updateRestaurantById", 500, args)
     ELSE /\ restaurant' = [restaurant EXCEPT
                              ![restaurantId].restaurantName = dto.restaurantName]
          /\ Reply("updateRestaurantById", 200, args)

\* findFirst, 404 / 403, then restaurant.delete: its menus and their
\* purchases go with it
deleteRestaurantById(restaurantId, u) ==
  LET args == [user |-> user[u], restaurantId |-> restaurantId]
      instance == findFirst(restaurant, restaurantId)
      mids == menusOf({restaurantId})
  IN
  /\ Accept /\ Tick
  /\ UNCHANGED <<user, seq>>
  /\ IF IsNull(instance)
       THEN /\ UNCHANGED <<restaurant, menu, purchaseHistory>>
            /\ Reply("deleteRestaurantById", 404, args)
     ELSE IF ~isOwner(u, instance)
       THEN /\ UNCHANGED <<restaurant, menu, purchaseHistory>>
            /\ Reply("deleteRestaurantById", 403, args)
     ELSE /\ restaurant' = Without(restaurant, {restaurantId})
          /\ menu' = Without(menu, mids)
          /\ purchaseHistory' = Without(purchaseHistory, purchasesOfMenus(mids))
          /\ Reply("deleteRestaurantById", 200, args)

\* menu.findFirst({ where: { dishName, restaurantId } })
dishTaken(dishName, restaurantId) ==
  \E m \in DOMAIN menu :
    menu[m].dishName = dishName /\ menu[m].restaurantId = restaurantId

\* the reads of createMenuInRestaurant: 404, 403 and (impl 1 only) 409
createMenuInRestaurant(s, restaurantId, dto, u, impl) ==
  LET p == [op |-> "createMenuInRestaurant", impl |-> impl, user |-> user[u],
            restaurantId |-> restaurantId, dto |-> dto, pc |-> "create"]
      instance == findFirst(restaurant, restaurantId)
  IN
  /\ Accept /\ Tick
  /\ UNCHANGED <<tables, seq>>
  /\ IF IsNull(instance) THEN Reply(p.op, 404, p)
     ELSE IF ~isOwner(u, instance) THEN Reply(p.op, 403, p)
     ELSE IF impl = 1 /\ dishTaken(dto.dishName, restaurantId)
       THEN Reply(p.op, 409, p)
     ELSE Continue(s, p)

\* menu.create, connecting the restaurant
menuCreate(s) ==
  LET p == proc[s]
      id == seq.menu + 1
      row == [id |-> id, dishName |-> p.dto.dishName, price |-> p.dto.price,
              restaurantId |-> p.restaurantId]
  IN
  /\ p.op = "createMenuInRestaurant" /\ p.pc = "create"
  /\ Tick
  /\ UNCHANGED <<user, restaurant, purchaseHistory, nreq>>
  /\ IF p.restaurantId \in DOMAIN restaurant
     THEN /\ menu' = With(menu, id, row)
          /\ seq' = [seq EXCEPT !.menu = id]
          /\ Respond(s, 201, p)
     ELSE /\ UNCHANGED <<menu, seq>>
          /\ Respond(s, 500, p)

\* ------------------------------------------------------------ MenuService
\* the reads of updateMenuById: 404, 403 and (impl 1 only) 409
updateMenuById(s, menuId, dto, u, impl) ==
  LET m == findFirst(menu, menuId)
      r == findFirst(restaurant, Val(m).restaurantId)
      p == [op |-> "updateMenuById", impl |-> impl, user |-> user[u],
            menuId |-> menuId, dto |-> dto, pc |-> "update"]
  IN
  /\ Accept /\ Tick
  /\ UNCHANGED <<tables, seq>>
  /\ IF IsNull(m) THEN Reply(p.op, 404, p)
     ELSE IF ~isOwner(u, r) THEN Reply(p.op, 403, p)
     ELSE IF impl = 1 /\ dishTaken(dto.dishName, Val(m).restaurantId)
       THEN Reply(p.op, 409, p)
     ELSE Continue(s, p)

\* menu.update({ where: { id: menuId }, data: dto })
menuUpdate(s) ==
  LET p == proc[s] IN
  /\ p.op = "updateMenuById" /\ p.pc = "update"
  /\ Tick
  /\ UNCHANGED <<user, restaurant, purchaseHistory, seq, nreq>>
  /\ IF p.menuId \in DOMAIN menu
     THEN /\ menu' = [menu EXCEPT ![p.menuId].dishName = p.dto.dishName,
                                  ![p.menuId].price = p.dto.price]
          /\ Respond(s, 200, p)
     ELSE /\ UNCHANGED menu
          /\ Respond(s, 500, p)

\* findFirst menu, 404; findFirst restaurant, 403; menu.delete: its purchases
\* go with it
deleteMenuById(menuId, u) ==
  LET m == findFirst(menu, menuId)
      r == findFirst(restaurant, Val(m).restaurantId)
      args == [user |-> user[u], menuId |-> menuId]
  IN
  /\ Accept /\ Tick
  /\ UNCHANGED <<user, restaurant, seq>>
  /\ IF IsNull(m)
       THEN UNCHANGED <<menu, purchaseHistory>> /\ Reply("deleteMenuById", 404, args)
     ELSE IF ~isOwner(u, r)
       THEN UNCHANGED <<menu, purchaseHistory>> /\ Reply("deleteMenuById", 403, args)
     ELSE /\ menu' = Without(menu, {menuId})
          /\ purchaseHistory' = Without(purchaseHistory, purchasesOfMenus({menuId}))
          /\ Reply("deleteMenuById", 200, args)

\* ------------------------------------------------------------- SSOService
\* UserDto: { name, password, email? }
UserDtos == [name : Names, password : Passwords, email : Emails]

\* user.create({ data: { cashBalance: 0, name, password: hash } }); P2002
\* gives 409.  The email of the dto is not among the data.
register(dto) ==
  LET id == seq.user + 1
      row == [id |-> id, name |-> dto.name, password |-> hash(dto.password),
              email |-> NoEmail, cashBalance |-> 0]
      taken == \E k \in DOMAIN user : user[k].name = dto.name
  IN
  /\ Accept /\ Tick
  /\ UNCHANGED <<restaurant, menu, purchaseHistory>>
  /\ IF "name" \in UserUnique /\ taken
     THEN /\ UNCHANGED <<user, seq>>
          /\ Reply("register", 409, [dto |-> dto])
     ELSE /\ user' = With(user, id, row)
          /\ seq' = [seq EXCEPT !.user = id]
          /\ Reply("register", 201, [dto |-> dto, id |-> id])

\* user.findUnique by name; a wrong name and a wrong password both give 401
login(dto) ==
  LET hit == {k \in DOMAIN user : user[k].name = dto.name}
      found == CHOOSE k \in hit : TRUE
  IN
  /\ Accept /\ Tick
  /\ UNCHANGED <<tables, seq>>
  /\ IF hit = {} THEN Reply("login", 401, [dto |-> dto])
     ELSE IF ~verify(user[found].password, dto.password)
       THEN Reply("login", 401, [dto |-> dto])
     ELSE Reply("login", 200, [dto |-> dto, id |-> found])

\* UserPasswordDto: { name, password, newPassword?, email? }; an undefined
\* member of `data` is left as it is by the store
Absent == "<absent>"
UserPasswordDtos ==
  [name : Names, password : Passwords, newPassword : Passwords \cup {Absent},
   email : {"a@x", Absent}]

\* the test on `verified` left out
unauthorizedNever(verified) == FALSE

\* if (!verified) throw new UnauthorizedException
unauthorized(verified) == ~verified

\* user.findUnique by name (user.password of a null user throws), verify or
\* 401, then user.update of password and email.  argon.hash is called with
\* dto.newPassword whether it is there or not: of an undefined argument it
\* either throws (500, nothing written) or returns the hash of no password.
changePassword(dto) ==
  LET hit == {k \in DOMAIN user : user[k].name = dto.name}
      found == CHOOSE k \in hit : TRUE
      row == [user[found] EXCEPT
                !.password = hash(dto.newPassword),
                !.email = IF dto.email = Absent THEN @ ELSE dto.email]
  IN
  /\ Accept /\ Tick
  /\ UNCHANGED <<restaurant, menu, purchaseHistory, seq>>
  /\ IF hit = {}
       THEN UNCHANGED user /\ Reply("changePassword", 500, [dto |-> dto])
     ELSE IF unauthorized(verify(user[found].password, dto.password))
       THEN UNCHANGED user /\ Reply("changePassword", 401, [dto |-> dto])
     ELSE \/ /\ user' = [user EXCEPT ![found] = row]
             /\ Reply("changePassword", 200, [dto |-> dto, id |-> found])
          \/ /\ dto.newPassword = Absent
             /\ UNCHANGED user
             /\ Reply("changePassword", 500, [dto |-> dto])

\* ------------------------- RestaurantService.searchRestaurantByRelevance
\* Relevance is counted in tenths: the penalty of 0.1 is one tenth.
Penalty == 1
DefaultItemsPerPage == 10
DefaultPage == 1

\* A query is told by the relevance getRelevance gives it against every
\* name, and by page and itemsperpage (0: not given).
Scores == {0, 1, 2}
SearchQueries ==
  [q : [RestaurantNames \cup DishNames -> Scores],
   page : {0, 1, 2}, itemsperpage : {0, 1, 2}]

getRelevance(q, name) == q[name]

\* getRelevance(query.q, menu.dishName) with nothing taken off
dishRelevanceRaw(q, dishName) == getRelevance(q, dishName)

\* getRelevance(query.q, menu.dishName) - 0.1
dishRelevance(q, dishName) == getRelevance(q, dishName) - Penalty

\* Math.max(...relevanceList)
Max(S) == CHOOSE x \in S : \A y \in S : y <= x

\* the relevance put on one restaurant of findMany({ include: { menus } })
relevance(q, rid) ==
  Max({getRelevance(q, restaurant[rid].restaurantName)}
        \cup {dishRelevance(q, menu[m].dishName) : m \in menusOf({rid})})

\* results.sort((a, b) => b.relevance - a.relevance): stable, descending
RECURSIVE insertSorted(_, _)
insertSorted(x, list) ==
  IF list = <<>> THEN <<x>>
  ELSE IF x.relevance >= Head(list).relevance THEN <<x>> \o list
  ELSE <<Head(list)>> \o insertSorted(x, Tail(list))

RECURSIVE sort(_)
sort(list) ==
  IF list = <<>> THEN <<>> ELSE insertSorted(Head(list), sort(Tail(list)))

\* paginate(results, itemsPerPage, page) of main.utils: the page-th run of
\* itemsPerPage results
paginate(results, itemsPerPage, page) ==
  LET first == (page - 1) * itemsPerPage + 1
      last == IF page * itemsPerPage < Len(results)
              THEN page * itemsPerPage ELSE Len(results)
  IN IF first > last THEN <<>> ELSE SubSeq(results, first, last)

\* the orders findMany may return the rows in (no orderBy)
Orders(ids) ==
  {o \in [1..Cardinality(ids) -> ids] :
     \A i, j \in 1..Cardinality(ids) : i # j => o[i] # o[j]}

searchRestaurantByRelevance(query, found) ==
  LET results == [i \in 1..Len(found) |->
                    [id |-> found[i], relevance |-> relevance(query.q, found[i])]]
      itemsPerPage ==
        IF query.itemsperpage = 0 THEN DefaultItemsPerPage ELSE query.itemsperpage
      page == IF query.page = 0 THEN DefaultPage ELSE query.page
  IN
  /\ Accept /\ Tick
  /\ UNCHANGED <<tables, seq, proc>>
  /\ resp' = [op |-> "searchRestaurantByRelevance", status |-> 200,
              req |-> [query |-> query],
              body |-> paginate(sort(results), itemsPerPage, page)]

\* ----------------------------------------------- POST /sso/user/topup/
\* the body of a top-up: additionalCashBalance missing, not a number, or a
\* number
TopUpDtos ==
  {[kind |-> "absent", value |-> 0], [kind |-> "string", value |-> 0]}
    \cup [kind : {"number"}, value : {-1} \cup 1..MaxTopUp]

\* every number passes
validAmountAny(dto) == dto.kind = "number"

validAmount(dto) == dto.kind = "number" /\ dto.value >= 0

\* the balance of the token's user goes up by the amount, or 400
topUp(u, dto) ==
  LET args == [user |-> user[u], dto |-> dto] IN
  /\ Accept /\ Tick
  /\ UNCHANGED <<restaurant, menu, purchaseHistory, seq>>
  /\ IF validAmount(dto)
     THEN /\ user' = [user EXCEPT ![u].cashBalance = @ + dto.value]
          /\ Reply("topUp", 200, args)
     ELSE /\ UNCHANGED user
          /\ Reply("topUp", 400, args)

\* the same request in two statements: the guard resolves the token to a user
\* object, the update writes that object's balance plus the amount
topUpRead(s, u, dto) ==
  LET locals == [op |-> "topUp", user |-> user[u], dto |-> dto, pc |-> "update"] IN
  /\ Accept /\ Tick
  /\ UNCHANGED <<tables, seq>>
  /\ IF validAmount(dto) THEN Continue(s, locals)
     ELSE /\ resp' = [op |-> "topUp", status |-> 400, req |-> locals]
          /\ UNCHANGED proc

topUpUpdate(s) ==
  LET p == proc[s] IN
  /\ p.op = "topUp" /\ p.pc = "update"
  /\ Tick
  /\ UNCHANGED <<restaurant, menu, purchaseHistory, seq, nreq>>
  /\ IF p.user.id \in DOMAIN user
     THEN /\ user' = [user EXCEPT
                       ![p.user.id].cashBalance = p.user.cashBalance + p.dto.value]
          /\ Respond(s, 200, p)
     ELSE /\ UNCHANGED user
          /\ Respond(s, 500, p)

\* --------------------------------------------------- DELETE /sso/user/
\* { name, password }: 401 unless the named user's password verifies, else
\* the user is deleted: the restaurants it owns, their menus, and the
\* purchases of the user and of those menus go with it
deleteUser(dto) ==
  LET hit == {k \in DOMAIN user : user[k].name = dto.name}
      rids == restaurantsOf(hit)
      mids == menusOf(rids)
  IN
  /\ Accept /\ Tick
  /\ UNCHANGED seq
  /\ IF hit = {} \/ \E k \in hit : ~verify(user[k].password, dto.password)
     THEN /\ UNCHANGED tables
          /\ Reply("deleteUser", 401, [dto |-> dto])
     ELSE /\ user' = Without(user, hit)
          /\ restaurant' = Without(restaurant, rids)
          /\ menu' = Without(menu, mids)
          /\ purchaseHistory' =
               Without(purchaseHistory,
                       purchasesOfMenus(mids) \cup purchasesOfUsers(hit))
          /\ Reply("deleteUser", 204, [dto |-> dto])

\* ------------------------------------------------------------------ Next
\* the steps of the requests in flight
HandlePurchase(s) ==
  \/ purchaseTotal(s)
  \/ purchaseMenu(s)
  \/ purchaseCreate(s)
  \/ purchaseRestaurant(s)
  \/ purchaseCredit(s)
  \/ purchaseDebit(s)

HandleMenu(s) ==
  \/ menuCreate(s)
  \/ menuUpdate(s)

\* a request can be accepted
Open == nreq < MaxRequests

\* requests are served one at a time: a request arrives when none is in flight
Serial == AllIdle /\ Open

\* a request arrives for the user u the bearer token resolves to
Next ==
  \/ Serial /\ \E s \in Slots, u \in DOMAIN user, dto \in Dtos, impl \in {1, 2} :
       FreeSlot(s) /\ purchaseDish(s, u, dto, impl)
  \/ Serial /\ \E u \in DOMAIN user, dto \in RestaurantDtos :
       createRestaurant(u, dto)
  \/ Serial /\ \E u \in DOMAIN user, id \in RestaurantIds, dto \in RestaurantDtos :
       updateRestaurantById(id, dto, u)
  \/ Serial /\ \E u \in DOMAIN user, id \in RestaurantIds :
       deleteRestaurantById(id, u)
  \/ Serial /\ \E s \in Slots, u \in DOMAIN user, id \in RestaurantIds,
                  dto \in MenuDtos, impl \in {1, 2} :
       FreeSlot(s) /\ createMenuInRestaurant(s, id, dto, u, impl)
  \/ Serial /\ \E s \in Slots, u \in DOMAIN user, id \in MenuIds,
                  dto \in MenuDtos, impl \in {1, 2} :
       FreeSlot(s) /\ updateMenuById(s, id, dto, u, impl)
  \/ Serial /\ \E u \in DOMAIN user, id \in MenuIds : deleteMenuById(id, u)
  \/ Serial /\ \E dto \in UserDtos : register(dto)
  \/ Serial /\ \E dto \in UserDtos : deleteUser(dto)
  \/ \E s \in Slots : HandlePurchase(s)
  \/ \E s \in Slots : HandleMenu(s)

Spec == Init /\ [][Next]_vars

\* RestaurantService and MenuService alone, one request at a time
NextManage ==
  \/ Serial /\ \E u \in DOMAIN user, dto \in RestaurantDtos :
       createRestaurant(u, dto)
  \/ Serial /\ \E u \in DOMAIN user, id \in RestaurantIds, dto \in RestaurantDtos :
       updateRestaurantById(id, dto, u)
  \/ Serial /\ \E u \in DOMAIN user, id \in RestaurantIds :
       deleteRestaurantById(id, u)
  \/ Serial /\ \E s \in Slots, u \in DOMAIN user, id \in RestaurantIds,
                  dto \in MenuDtos, impl \in {1, 2} :
       FreeSlot(s) /\ createMenuInRestaurant(s, id, dto, u, impl)
  \/ Serial /\ \E s \in Slots, u \in DOMAIN user, id \in MenuIds,
                  dto \in MenuDtos, impl \in {1, 2} :
       FreeSlot(s) /\ updateMenuById(s, id, dto, u, impl)
  \/ Serial /\ \E u \in DOMAIN user, id \in MenuIds : deleteMenuById(id, u)
  \/ \E s \in Slots : HandleMenu(s)

SpecManage == Init /\ [][NextManage]_vars

\* SSOService alone, one request at a time
NextSSO ==
  \/ Serial /\ \E dto \in UserDtos : register(dto)
  \/ Serial /\ \E dto \in UserDtos : login(dto)
  \/ Serial /\ \E dto \in UserPasswordDtos : changePassword(dto)
  \/ Serial /\ \E u \in DOMAIN user, dto \in TopUpDtos : topUp(u, dto)
  \/ Serial /\ \E dto \in UserDtos : deleteUser(dto)

SpecSSO == Init /\ [][NextSSO]_vars

\* a search of the restaurants and menus their owners have made; the search
\* writes nothing and is the last request of a behaviour
NextSearch ==
  \/ Serial /\ \E u \in DOMAIN user, dto \in RestaurantDtos :
       createRestaurant(u, dto)
  \/ Serial /\ \E s \in Slots, u \in DOMAIN user, id \in RestaurantIds,
                  dto \in MenuDtos, impl \in {1, 2} :
       FreeSlot(s) /\ createMenuInRestaurant(s, id, dto, u, impl)
  \/ \E s \in Slots : menuCreate(s)
  \/ Serial /\ nreq + 1 = MaxRequests
       /\ \E query \in SearchQueries, found \in Orders(DOMAIN restaurant) :
            searchRestaurantByRelevance(query, found)

SpecSearch == Init /\ [][NextSearch]_vars

\* purchases one at a time over a store whose statements may fail
NextFaulty ==
  \/ Serial /\ \E s \in Slots, u \in DOMAIN user, dto \in Dtos, impl \in {1, 2} :
       FreeSlot(s) /\ purchaseDish(s, u, dto, impl)
  \/ \E s \in Slots : HandlePurchase(s)
  \/ \E s \in Slots : storeFails(s)

SpecFaulty == Init /\ [][NextFaulty]_vars

\* requests of different clients interleave between their steps
UnitDtos == {dto \in Dtos : Len(dto) = 1 /\ dto[1].menuId # 0}

NextInterleaved ==
  \/ Open /\ \E s \in Slots, u \in DOMAIN user, dto \in UnitDtos, impl \in {1, 2} :
       FreeSlot(s) /\ purchaseDish(s, u, dto, impl)
  \/ Open /\ \E u \in DOMAIN user, id \in RestaurantIds :
       deleteRestaurantById(id, u)
  \/ Open /\ \E s \in Slots, u \in DOMAIN user, id \in RestaurantIds,
                dto \in MenuDtos, impl \in {1, 2} :
       FreeSlot(s) /\ createMenuInRestaurant(s, id, dto, u, impl)
  \/ Open /\ \E s \in Slots, u \in DOMAIN user, id \in MenuIds,
                dto \in MenuDtos, impl \in {1, 2} :
       FreeSlot(s) /\ updateMenuById(s, id, dto, u, impl)
  \/ Open /\ \E u \in DOMAIN user, id \in MenuIds : deleteMenuById(id, u)
  \/ \E s \in Slots : HandlePurchase(s)
  \/ \E s \in Slots : HandleMenu(s)

SpecInterleaved == Init /\ [][NextInterleaved]_vars

\* purchase requests of the service of lines 337-418 alone, interleaved
\* between their store statements
NextConcurrent ==
  \/ Open /\ \E s \in Slots, u \in DOMAIN user, dto \in UnitDtos :
       FreeSlot(s) /\ purchaseDish(s, u, dto, 1)
  \/ \E s \in Slots : HandlePurchase(s)

SpecConcurrent == Init /\ [][NextConcurrent]_vars

\* register, top-up and purchase requests of different clients, interleaved
\* between their store statements
NextBalances ==
  \/ Open /\ \E s \in Slots, u \in DOMAIN user, dto \in UnitDtos, impl \in {1, 2} :
       FreeSlot(s) /\ purchaseDish(s, u, dto, impl)
  \/ Open /\ \E dto \in UserDtos : register(dto)
  \/ Open /\ \E u \in DOMAIN user, dto \in TopUpDtos : topUp(u, dto)
  \/ Open /\ \E s \in Slots, u \in DOMAIN user, dto \in TopUpDtos :
       FreeSlot(s) /\ topUpRead(s, u, dto)
  \/ \E s \in Slots : HandlePurchase(s)
  \/ \E s \in Slots : topUpUpdate(s)

SpecBalances == Init /\ [][NextBalances]_vars

\* the store after alice has bought one d1 from the service of lines 285-419
InitSold ==
  /\ user = [SeedUser EXCEPT ![1].cashBalance = MaxCash - SeedMenu[1].price]
  /\ restaurant = [SeedRestaurant EXCEPT ![2].cashBalance = SeedMenu[1].price]
  /\ menu = SeedMenu
  /\ purchaseHistory =
       (1 :> [id |-> 1, menuId |-> 1, userId |-> 1, transactionDate |-> 1])
  /\ seq = [user |-> 2, restaurant |-> 2, menu |-> 2, purchaseHistory |-> 1]
  /\ now = 7
  /\ nreq = 0
  /\ proc = [s \in Slots |-> Idle]
  /\ resp = NoResp

\* purchases, reads of a user's purchases and deletions of menus, restaurants
\* and users, interleaved between their store statements
NextIntegrity ==
  \/ Open /\ \E s \in Slots, u \in DOMAIN user, dto \in UnitDtos, impl \in {1, 2} :
       FreeSlot(s) /\ purchaseDish(s, u, dto, impl)
  \/ Open /\ \E s \in Slots, u \in DOMAIN user :
       \E found \in Orders(purchasesOfUsers({u})) :
         FreeSlot(s) /\ getPurchaseByOwner(s, u, found)
  \/ Open /\ \E u \in DOMAIN user, id \in MenuIds : deleteMenuById(id, u)
  \/ Open /\ \E u \in DOMAIN user, id \in RestaurantIds :
       deleteRestaurantById(id, u)
  \/ Open /\ \E dto \in UserDtos : deleteUser(dto)
  \/ \E s \in Slots : HandlePurchase(s)
  \/ \E s \in Slots : getPurchaseMenu(s)

SpecIntegrity == InitSold /\ [][NextIntegrity]_vars

\* ============================================================ properties
\* The response of the request that ended in the last step, and the store it
\* arrived at.
PurchaseEnded == resp.op = "purchaseDish"
Succeeded == resp.status = 201
Buyer == resp.req.user.id
Before == resp.req.pre

StoreAsBefore ==
  /\ user = Before.user
  /\ restaurant = Before.restaurant
  /\ menu = Before.menu
  /\ purchaseHistory = Before.purchaseHistory

allKnown(items, menus) ==
  \A k \in 1..Len(items) : items[k].menuId \in DOMAIN menus

\* Sigma(unit price * quantity) over the line items, by the menus of a store
RECURSIVE totalOf(_, _)
totalOf(items, menus) ==
  IF items = <<>> THEN 0
  ELSE menus[Head(items).menuId].price * Head(items).quantity
       + totalOf(Tail(items), menus)

\* the same sum over the line items whose menu belongs to restaurant r
RECURSIVE creditOf(_, _, _)
creditOf(items, menus, r) ==
  IF items = <<>> THEN 0
  ELSE (IF menus[Head(items).menuId].restaurantId = r
        THEN menus[Head(items).menuId].price * Head(items).quantity ELSE 0)
       + creditOf(Tail(items), menus, r)

\* the quantity asked of menu m over all line items
RECURSIVE quantityOf(_, _)
quantityOf(items, m) ==
  IF items = <<>> THEN 0
  ELSE (IF Head(items).menuId = m THEN Head(items).quantity ELSE 0)
       + quantityOf(Tail(items), m)

\* ------------------------------------------------------------------- C1
\* what a request wrote and the store still holds
recordsLeft(r) ==
  {k \in 1..Len(r.purchases) : r.purchases[k].id \in DOMAIN purchaseHistory}
creditsLeft(r) ==
  {k \in 1..Len(r.credited) : r.credited[k] \in DOMAIN restaurant}

\* C1: a purchase request that has ended has applied its records, its credits
\* and the buyer debit (it returned 201), or the store holds none of them.
PurchaseAllOrNothing ==
  PurchaseEnded =>
    \/ Succeeded
    \/ recordsLeft(resp.req) = {} /\ creditsLeft(resp.req) = {}

\* ------------------------------------------------------------------- C2
\* C2: with every menu id known, the request ends 402 exactly when the
\* buyer's balance in the store is below Sigma(price * quantity); a 402 leaves
\* the four tables as they were; a 201 had the balance to cover the total.
PaymentRequired ==
  PurchaseEnded /\ allKnown(resp.req.dto, Before.menu) =>
    LET balance == Before.user[Buyer].cashBalance
        total == totalOf(resp.req.dto, Before.menu)
    IN /\ (balance < total) <=> (resp.status = 402)
       /\ resp.status = 402 => StoreAsBefore
       /\ Succeeded => balance >= total

PaymentRequiredSeen ==
  /\ PurchaseEnded /\ resp.status = 402
  /\ Len(resp.req.dto) = 2
  /\ Before.user[Buyer].cashBalance >= Before.menu[resp.req.dto[1].menuId].price

\* ------------------------------------------------------------------- C3
\* C3: a request with an unknown menu id at any position ends 400 and leaves
\* the four tables as they were.
InvalidMenuFailsWhole ==
  PurchaseEnded /\ ~allKnown(resp.req.dto, Before.menu) =>
    resp.status = 400 /\ StoreAsBefore

InvalidMenuLastSeen ==
  /\ PurchaseEnded /\ resp.status = 400
  /\ Len(resp.req.dto) = 2
  /\ resp.req.dto[1].menuId \in DOMAIN Before.menu
  /\ Before.user[Buyer].cashBalance >= Before.menu[resp.req.dto[1].menuId].price

\* ------------------------------------------------------------------- C4
\* C4: a 201 returns Sigma(quantity) records, all in the store and the only
\* new ones, `quantity` of them for each menu and the buyer, all of one
\* transaction time.
OneRecordPerUnit ==
  PurchaseEnded /\ Succeeded =>
    LET made == resp.req.purchases
        dto == resp.req.dto
    IN /\ Len(made) = units(dto)
       /\ \A k \in 1..Len(made) :
            /\ made[k].id \in DOMAIN purchaseHistory
            /\ purchaseHistory[made[k].id] = made[k]
            /\ made[k].userId = Buyer
            /\ made[k].transactionDate = made[1].transactionDate
       /\ DOMAIN purchaseHistory \ DOMAIN Before.purchaseHistory
            = {made[k].id : k \in 1..Len(made)}
       /\ \A m \in DOMAIN Before.menu :
            Cardinality({k \in 1..Len(made) : made[k].menuId = m})
              = quantityOf(dto, m)

\* ------------------------------------------------------------------- C5
\* C5: after a 201 every restaurant's balance is its balance at arrival plus
\* Sigma(price * quantity) over the line items of its own menus.
OwningRestaurantCredited ==
  PurchaseEnded /\ Succeeded =>
    \A r \in DOMAIN Before.restaurant :
      /\ r \in DOMAIN restaurant
      /\ restaurant[r].cashBalance =
           Before.restaurant[r].cashBalance
             + creditOf(resp.req.dto, Before.menu, r)

\* ------------------------------------------------------------------- C6
BuyerDebited ==
  PurchaseEnded /\ Succeeded =>
    /\ user[Buyer].cashBalance =
         Before.user[Buyer].cashBalance - totalOf(resp.req.dto, Before.menu)
    /\ \A u \in DOMAIN Before.user \ {Buyer} : user[u] = Before.user[u]
    /\ DOMAIN user = DOMAIN Before.user

\* the step of a purchase request that writes the User table is its last one
DebitIsLastWrite ==
  (\E s \in Slots : proc[s].op = "purchaseDish") /\ user' # user =>
    /\ resp'.op = "purchaseDish" /\ resp'.status = 201
    /\ AllIdle'

\* C6: a 201 leaves the buyer's balance lower by Sigma(price * quantity) and
\* every other user as before, and the debit is the request's last write: no
\* record or credit of the request follows it.
BuyerDebitedOnceAtEnd == []BuyerDebited /\ [][DebitIsLastWrite]_vars

BuyerDebitedSeen ==
  /\ PurchaseEnded /\ Succeeded
  /\ Len(resp.req.dto) = 2 /\ units(resp.req.dto) = 3
  /\ Len(resp.req.credited) = 3

\* ------------------------------------------------------------------- C7
\* C7: no two restaurants have the same restaurantName, and a createRestaurant
\* whose name another restaurant has ends 409.
RestaurantNamesUnique ==
  /\ \A a, b \in DOMAIN restaurant :
       a # b => restaurant[a].restaurantName # restaurant[b].restaurantName
  /\ resp.op = "createRestaurant"
       /\ (\E r \in DOMAIN restaurant \ {seq.restaurant} :
             restaurant[r].restaurantName = resp.req.dto.restaurantName)
       => resp.status = 409

\* ------------------------------------------------------------------- C8
\* C8: no two menu items of one restaurant have the same dishName.
DishNamesUnique ==
  \A a, b \in DOMAIN menu :
    a # b /\ menu[a].restaurantId = menu[b].restaurantId
      => menu[a].dishName # menu[b].dishName

\* ------------------------------------------------------------------- C9
Gated == {"updateRestaurantById", "deleteRestaurantById",
          "createMenuInRestaurant", "updateMenuById", "deleteMenuById"}
OnMenu == {"updateMenuById", "deleteMenuById"}

\* the restaurant a gated request is about, in the store it finds (0: none)
concerned(r) ==
  IF r.op \in OnMenu
  THEN IF r.req.menuId \in DOMAIN menu
       THEN menu[r.req.menuId].restaurantId ELSE 0
  ELSE r.req.restaurantId

OwnershipGate ==
  resp'.op \in Gated =>
    LET rid == concerned(resp')
        known == rid \in DOMAIN restaurant
        owner == known /\ restaurant[rid].ownerId = resp'.req.user.id
    IN /\ ~known => resp'.status = 404
       /\ known /\ ~owner => resp'.status = 403
       /\ resp'.status \in {403, 404} => UNCHANGED tables
       /\ tables' # tables => owner

\* a request waiting to write was let through as the owner's
OnlyOwnersPass ==
  \A s \in Slots :
    proc[s].op = "createMenuInRestaurant"
      => /\ proc[s].restaurantId \in DOMAIN restaurant
         /\ restaurant[proc[s].restaurantId].ownerId = proc[s].user.id

\* C9: a gated mutation of an unknown restaurant or menu ends 404, one by a
\* user who is not the owner ends 403, both leave the tables as they were,
\* and a gated mutation that changes a table is the owner's.
MutationsGatedByOwnership == []OnlyOwnersPass /\ [][OwnershipGate]_vars

ForbiddenSeen ==
  /\ resp.op = "updateMenuById" /\ resp.status = 403
  /\ resp.req.menuId \in DOMAIN menu

\* ------------------------------------------------------------------ C10
UserNamesUnique ==
  \A a, b \in DOMAIN user : a # b => user[a].name # user[b].name

RegisterConflict ==
  resp'.op = "register" =>
    IF \E k \in DOMAIN user : user[k].name = resp'.req.dto.name
    THEN resp'.status = 409 /\ user' = user
    ELSE resp'.status = 201 /\ DOMAIN user' = DOMAIN user \cup {seq'.user}

\* C10: register with the name of an existing user ends 409 and leaves the
\* User table as it was; no two users share a name.
RegisterKeepsNamesUnique == []UserNamesUnique /\ [][RegisterConflict]_vars

RegisterConflictSeen ==
  /\ resp.op = "register" /\ resp.status = 409
  /\ resp.req.dto.password = "p1" /\ resp.req.dto.email = "a@x"
  /\ \E k \in DOMAIN user :
       /\ user[k].name = resp.req.dto.name
       /\ user[k].password = hash("p2") /\ user[k].email = NoEmail
       /\ user[k].cashBalance > 0

\* ------------------------------------------------------------------ C11
\* C11: a register that ends 201 has made the one user of that name, with a
\* zero balance, the hash of the password (never the raw password) and the
\* email of the request (none when the request has none), and its token is
\* that user's.
RegisterStoresUser ==
  resp.op = "register" /\ resp.status = 201 =>
    LET id == resp.req.id
        dto == resp.req.dto
    IN /\ id \in DOMAIN user
       /\ {k \in DOMAIN user : user[k].name = dto.name} = {id}
       /\ user[id].cashBalance = 0
       /\ user[id].password # dto.password
       /\ verify(user[id].password, dto.password)
       /\ user[id].email = dto.email

\* ------------------------------------------------------------------ C12
\* the user named by a dto whose stored password is the hash of the dto's
matches(dto) ==
  \E k \in DOMAIN user :
    user[k].name = dto.name /\ user[k].password = <<"argon2", dto.password>>

LoginChecks ==
  resp'.op = "login" =>
    LET dto == resp'.req.dto IN
    /\ resp'.status = 200 <=> matches(dto)
    /\ ~matches(dto) => resp'.status = 401
    /\ UNCHANGED <<tables, seq>>
    /\ resp.op = "changePassword" /\ resp.status = 200
         /\ resp.req.dto.name = dto.name
         => (resp'.status = 200 <=> dto.password = resp.req.dto.newPassword)

WrongPasswordRejected ==
  resp'.op = "changePassword" =>
    \A k \in DOMAIN user :
      user[k].name = resp'.req.dto.name
        /\ user[k].password # <<"argon2", resp'.req.dto.password>>
        => /\ resp'.status = 401
           /\ k \in DOMAIN user'
           /\ user'[k].password = user[k].password
           /\ user'[k].email = user[k].email

\* C13: a changePassword whose password is not the stored one of the named
\* user ends 401 and leaves that user's password and email as they were.
ChangePasswordNeedsPassword == [][WrongPasswordRejected]_vars

WrongPasswordSeen ==
  /\ resp.op = "changePassword" /\ resp.status = 401
  /\ resp.req.dto.name = "bob" /\ resp.req.dto.password = "p1"
  /\ resp.req.dto.newPassword = "p1" /\ resp.req.dto.email = "a@x"
  /\ 2 \in DOMAIN user
  /\ user[2].password = hash("p2") /\ user[2].email = NoEmail

\* ------------------------------------------------------------------ C14
ProfileUpdateFrame ==
  resp'.op = "changePassword" =>
    LET dto == resp'.req.dto IN
    \A k \in DOMAIN user :
      user[k].name = dto.name /\ user[k].password = <<"argon2", dto.password>>
        => /\ dto.newPassword = Absent /\ dto.email # Absent
                => /\ resp'.status = 200
                   /\ user'[k].email = dto.email
                   /\ user'[k].password = user[k].password
           /\ dto.newPassword # Absent /\ dto.email = Absent
                => /\ resp'.status = 200
                   /\ user'[k].email = user[k].email

\* C14: with the right current password, an update with an email and no
\* newPassword ends 200, sets the email and keeps the password; one with a
\* newPassword and no email ends 200 and keeps the email.
ProfileUpdateKeepsTheRest == [][ProfileUpdateFrame]_vars

\* ------------------------------------------------------------------ C15
TopUpAdds ==
  resp'.op = "topUp" =>
    LET u == resp'.req.user.id
        dto == resp'.req.dto
        valid == dto.kind = "number" /\ dto.value >= 0
    IN /\ valid => /\ resp'.status = 200
                   /\ user'[u].cashBalance = user[u].cashBalance + dto.value
       /\ ~valid => /\ resp'.status = 400
                    /\ user'[u].cashBalance = user[u].cashBalance
       /\ DOMAIN user' = DOMAIN user
       /\ \A k \in DOMAIN user \ {u} : user'[k] = user[k]
       /\ restaurant' = restaurant

\* C15: a top-up with a number that is not negative ends 200 and raises the
\* balance of the token's user by that number; one with no amount, a string
\* or a negative number ends 400; in both cases no other user's and no
\* restaurant's balance changes.
TopUpAddsExactly == [][TopUpAdds]_vars

TopUpSeen ==
  /\ resp.op = "topUp" /\ resp.status = 200
  /\ resp.req.dto.value = MaxTopUp
  /\ resp.req.user.cashBalance > 0
  /\ user[resp.req.user.id].cashBalance > MaxTopUp

\* ------------------------------------------------------------------ C16
UserDeleted ==
  resp'.op = "deleteUser" =>
    LET dto == resp'.req.dto
        named == {k \in DOMAIN user : user[k].name = dto.name}
        right == {k \in named : user[k].password = <<"argon2", dto.password>>}
        owned == {r \in DOMAIN restaurant : restaurant[r].ownerId \in right}
        dishes == {m \in DOMAIN menu : menu[m].restaurantId \in owned}
    IN /\ right # {} =>
            /\ resp'.status = 204
            /\ \A k \in DOMAIN user' : user'[k].name # dto.name
            /\ DOMAIN restaurant' \cap owned = {}
            /\ \A r \in DOMAIN restaurant' : restaurant'[r].ownerId \notin right
            /\ DOMAIN menu' \cap dishes = {}
            /\ \A h \in DOMAIN purchaseHistory' :
                 /\ purchaseHistory'[h].userId \notin right
                 /\ purchaseHistory'[h].menuId \notin dishes
       /\ named # {} /\ right = {} =>
            /\ resp'.status = 401
            /\ \A k \in named : k \in DOMAIN user' /\ user'[k] = user[k]

\* C16: a deletion with the name and the password of a user ends 204 and
\* leaves no user of that name, no restaurant the user owned, no menu of
\* such a restaurant and no purchase of the user or of such a menu; with a
\* wrong password it ends 401 and the user is as before.
UserDeletionCascades == [][UserDeleted]_vars

UserDeletedSeen ==
  /\ resp.op = "deleteUser" /\ resp.status = 204
  /\ resp.req.dto.name = "bob"
  /\ 1 \in DOMAIN user
  /\ seq.purchaseHistory > 0 /\ purchaseHistory = <<>>
  /\ DOMAIN restaurant = {2} /\ DOMAIN menu = {1}

\* ------------------------------------------------------------------ C17
\* the largest of the name's relevance and every dish's relevance less 0.1
scoreOf(q, r) ==
  LET onName == q[restaurant[r].restaurantName]
      onDishes == {q[menu[m].dishName] - Penalty :
                     m \in {d \in DOMAIN menu : menu[d].restaurantId = r}}
  IN CHOOSE x \in {onName} \cup onDishes :
       \A y \in {onName} \cup onDishes : y <= x

\* C17: the page returned is the run of `itemsperpage` (10 when not given)
\* restaurants at page `page` (1 when not given) of a list of all the
\* restaurants in non-increasing order of the largest of the name's relevance
\* and each dish's relevance less 0.1; a restaurant whose name has relevance
\* s stands before one whose name is less relevant and whose best dish has s.
SearchRanksAndSlices ==
  resp.op = "searchRestaurantByRelevance" =>
    LET query == resp.req.query
        n == Cardinality(DOMAIN restaurant)
        size == IF query.itemsperpage = 0 THEN 10 ELSE query.itemsperpage
        page == IF query.page = 0 THEN 1 ELSE query.page
        first == (page - 1) * size + 1
        body == resp.body
    IN /\ \A i \in 1..Len(body) :
            body[i].relevance = scoreOf(query.q, body[i].id)
       /\ \E all \in Orders(DOMAIN restaurant) :
            /\ \A i, j \in 1..n :
                 i < j => scoreOf(query.q, all[i]) >= scoreOf(query.q, all[j])
            /\ \A i \in 1..n :
                 first <= i /\ i < first + size
                   <=> /\ i - first + 1 \in 1..Len(body)
                       /\ body[i - first + 1].id = all[i]
            /\ Len(body) <= size
       /\ \A i, j \in 1..Len(body) :
            LET a == body[i].id
                b == body[j].id
                s == query.q[restaurant[a].restaurantName]
            IN /\ query.q[restaurant[b].restaurantName] < s - Penalty
               /\ scoreOf(query.q, b) = s - Penalty
               => i < j

SearchSeen ==
  /\ resp.op = "searchRestaurantByRelevance"
  /\ resp.req.query.page = 2 /\ resp.req.query.itemsperpage = 2
  /\ Cardinality(DOMAIN restaurant) = 3
  /\ Len(resp.body) = 1
  /\ \E m \in DOMAIN menu :
       /\ menu[m].restaurantId = resp.body[1].id
       /\ resp.req.query.q[menu[m].dishName] - Penalty = resp.body[1].relevance
       /\ resp.req.query.q[restaurant[resp.body[1].id].restaurantName]
            < resp.body[1].relevance

\* ------------------------------------------------------------------ C18
\* the unit prices of the credits a request has written to restaurant r
RECURSIVE creditsWritten(_, _, _)
creditsWritten(req, r, k) ==
  IF k = 0 THEN 0
  ELSE (IF req.credited[k] = r
        THEN req.pre.menu[req.purchases[k].menuId].price ELSE 0)
       + creditsWritten(req, r, k - 1)

PartialFailure ==
  PurchaseEnded /\ resp.status = 500 =>
    LET req == resp.req
        k == Len(req.credited)
    IN /\ user = Before.user
       /\ Len(req.purchases) \in {k, k + 1}
       /\ req.pc \in {"menu", "create", "debit"} => Len(req.purchases) = k
       /\ DOMAIN purchaseHistory \ DOMAIN Before.purchaseHistory
            = {req.purchases[i].id : i \in 1..Len(req.purchases)}
       /\ \A i \in 1..Len(req.purchases) :
            purchaseHistory[req.purchases[i].id] = req.purchases[i]
       /\ DOMAIN restaurant = DOMAIN Before.restaurant
       /\ \A r \in DOMAIN restaurant :
            /\ (\A i \in 1..k : req.credited[i] # r)
                 => restaurant[r] = Before.restaurant[r]
            /\ req.impl = 1
                 => restaurant[r].cashBalance =
                      Before.restaurant[r].cashBalance + creditsWritten(req, r, k)

FailureWritesNothing ==
  resp'.op = "purchaseDish" /\ resp'.status = 500 => UNCHANGED tables

RECURSIVE recordedFor(_, _)
recordedFor(r, n) ==
  IF n = 0 THEN 0
  ELSE (IF n \in DOMAIN purchaseHistory
           /\ menu[purchaseHistory[n].menuId].restaurantId = r
        THEN menu[purchaseHistory[n].menuId].price ELSE 0)
       + recordedFor(r, n - 1)

\* C19: once the purchase requests have completed, whatever their
\* interleaving, every restaurant's balance has grown by the price of every
\* unit bought of its menus: no credit is lost.
NoCreditLost ==
  AllIdle =>
    \A r \in DOMAIN restaurant :
      restaurant[r].cashBalance =
        SeedRestaurant[r].cashBalance + recordedFor(r, seq.purchaseHistory)

\* ------------------------------------------------------------------ C20
RECURSIVE cashOf(_, _)
cashOf(table, n) ==
  IF n = 0 THEN 0
  ELSE (IF n \in DOMAIN table THEN table[n].cashBalance ELSE 0)
       + cashOf(table, n - 1)

\* C20: once the purchase requests have completed, whatever their
\* interleaving, the balances of the users and the restaurants add up to what
\* they added up to before (no top-up is among the requests): what the
\* buyers were debited is what the restaurants were credited.
MoneyConserved ==
  AllIdle =>
    cashOf(user, seq.user) + cashOf(restaurant, seq.restaurant)
      = cashOf(SeedUser, 2) + cashOf(SeedRestaurant, 2)

\* ------------------------------------------------------------------ C21
\* C21: in every reachable state, whatever the order and interleaving of
\* register, top-up and purchaseDish requests, the stored cashBalance of every
\* user is greater than or equal to zero.
BalancesNonNegative == \A u \in DOMAIN user : user[u].cashBalance >= 0

\* two purchases of one unit of d1 by bob, who can pay for one, have both
\* ended 201: each passed the check on the balance its request arrived with
recordsOf(u) == {h \in DOMAIN purchaseHistory : purchaseHistory[h].userId = u}

OverspentSeen ==
  /\ AllIdle /\ nreq = 2
  /\ PurchaseEnded /\ Succeeded /\ Buyer = 2
  /\ resp.req.dto[1].quantity = 1
  /\ Cardinality(recordsOf(2)) = 2
  /\ \A h \in recordsOf(2) : purchaseHistory[h].menuId = 1
  /\ user[2].cashBalance = 0

\* ------------------------------------------------------------------ C22
\* the foreign keys of schema.prisma: PurchaseHistory.userId and .menuId,
\* Menu.restaurantId
ReferentialIntegrity ==
  /\ \A h \in DOMAIN purchaseHistory :
       /\ purchaseHistory[h].userId \in DOMAIN user
       /\ purchaseHistory[h].menuId \in DOMAIN menu
  /\ \A m \in DOMAIN menu : menu[m].restaurantId \in DOMAIN restaurant

\* a menu.findFirst of getPurchaseByOwner or of the second loop of
\* purchaseDish has returned null: the request ended 500 at that lookup
LookupReturnedNull(op) ==
  /\ resp.op = op
  /\ resp.status = 500
  /\ resp.req.pc = "menu"

\* C22: in every reachable state every purchase record references an existing
\* user and an existing menu item and every menu item references an existing
\* restaurant, whatever the interleaving of purchaseDish with deleteMenuById,
\* deleteRestaurantById and the deletion of a user; and so the menu lookups
\* of getPurchaseByOwner and of the second loop of purchaseDish never return
\* null.
LookupsNeverNull ==
  /\ ReferentialIntegrity
  /\ ~LookupReturnedNull("getPurchaseByOwner")
  /\ ~LookupReturnedNull("purchaseDish")

====
